---- MODULE Spec2Model ----
(***************************************************************************)
(* Record-mutation core of ReGISTools: the HTTP handlers of                *)
(* server/routes.ts over the DatabaseStorage of the same file and the      *)
(* tables, sequences and insert schemas of shared/schema.ts.               *)
(*                                                                         *)
(* A request is a process: it occupies one slot of `reqs` and advances at  *)
(* each `await` of its handler.  One action is one atomic stretch of a     *)
(* handler: the synchronous code up to and including one store statement.  *)
(***************************************************************************)
EXTENDS Integers, Sequences, FiniteSets, TLC

VARIABLES
    seq,        \* per sequence-backed type: the value the next nextval() returns
    tables,     \* per entity type: the set of rows of its table
    auditLogs,  \* the audit_logs table, in insertion (serial id) order
    reqs        \* per request slot: the request and where its handler stands

vars == <<seq, tables, auditLogs, reqs>>

(***************************************************************************)
(* Bounds of the model.                                                    *)
(***************************************************************************)
MaxReq == 3

Slots == 1..MaxReq

(***************************************************************************)
(* Program constants.                                                      *)
(***************************************************************************)
SeqStart == 1000
FmtDigits == 4

Types == {"asset", "staff", "document", "workflow", "work_order"}

SeqTypes == {"asset", "document", "workflow", "work_order"}

Users == {"u1", "u2"}

NULL == "NULL"

ABSENT == "ABSENT"

(***************************************************************************)
(* Identifier defaults of the id columns.                                  *)
(***************************************************************************)
Prefix(t) ==
    CASE t = "asset" -> "AST-"
      [] t = "document" -> "DOC-"
      [] t = "workflow" -> "WFL-"
      [] t = "work_order" -> "WO-"

DigitChar == <<"0", "1", "2", "3", "4", "5", "6", "7", "8", "9">>

RECURSIVE Pow10(_)
Pow10(k) == IF k = 0 THEN 1 ELSE 10 * Pow10(k - 1)

\* to_char(n, 'FM0000'): n zero-padded to the four digit positions of the
\* template; a number that needs more positions than the template has is
\* rendered as one '#' per position.
ToCharFM(n) ==
    IF n < Pow10(FmtDigits)
    THEN [i \in 1..FmtDigits |-> DigitChar[((n \div Pow10(FmtDigits - i)) % 10) + 1]]
    ELSE [i \in 1..FmtDigits |-> "#"]

\* concat(prefix, to_char(nextval(seq), 'FM0000'))
SeqId(t, n) == <<Prefix(t), ToCharFM(n)>>

\* gen_random_uuid() of staff.id: a token the store draws; it has no sequence.
Uuids == {<<"", <<"a">>>>, <<"", <<"b">>>>}

NoId == <<"", <<>>>>

\* An identifier no default ever produces (a request for a row that never was).
UnknownId == <<"", <<"?">>>>

(***************************************************************************)
(* Columns.  A row carries the columns the handlers read or write; `name`  *)
(* stands for the NOT NULL text columns without default (assets.name,      *)
(* staff.first_name, documents.title, workflows.title, work_orders.title), *)
(* `createdBy` for created_by / uploaded_by / requested_by, `comments` for *)
(* workflows.comments and work_orders.notes, `location` for                *)
(* assets.location and staff.office_location (<<>> is SQL NULL).           *)
(***************************************************************************)
HasColumn(t, c) ==
    CASE c = "id" -> TRUE
      [] c = "name" -> TRUE
      [] c = "status" -> t # "document"
      [] c = "completedDate" -> t \in {"workflow", "work_order"}
      [] c = "comments" -> t \in {"workflow", "work_order"}
      [] c = "custodianId" -> t = "asset"
      [] c = "userId" -> t = "staff"
      [] c = "createdBy" -> t # "staff"
      [] c = "location" -> t \in {"asset", "staff"}

\* pgEnum values of the status columns; work_orders.status is a plain varchar.
StatusEnum(t) ==
    CASE t = "asset" -> {"active", "inactive", "maintenance", "disposed"}
      [] t = "staff" -> {"active", "inactive", "on_leave"}
      [] t = "workflow" -> {"pending", "approved", "rejected", "completed"}
      [] OTHER -> {}

\* .default(...) of the status columns.
StatusDefault(t) ==
    CASE t = "asset" -> "active"
      [] t = "staff" -> "active"
      [] t = "workflow" -> "pending"
      [] t = "work_order" -> "open"
      [] OTHER -> NULL

BodyFields == {"id", "name", "status", "completedDate", "comments", "custodianId", "userId"}

\* A JSON request body: each modelled key is ABSENT or carries a JSON string;
\* the key id is NoId when absent.
EmptyBody == [f \in BodyFields |-> IF f = "id" THEN NoId ELSE ABSENT]

\* .omit({ id: true, createdAt: true, updatedAt: true })
OmittedKeys == {"id"}

\* A JSON string holding an ISO date, as `new Date().toISOString()` yields.
IsoDate == "2026-01-01T00:00:00.000Z"

(***************************************************************************)
(* createInsertSchema(table).omit({id, createdAt, updatedAt}): the set of  *)
(* offending keys of `body`, {} when it parses.  `partial` is .partial().  *)
(* Keys that are no column of the table are stripped, not rejected.        *)
(*   - a NOT NULL column without default is required;                      *)
(*   - a pgEnum column is z.enum(values);                                  *)
(*   - a timestamp column is z.date(), which accepts a Date object only:   *)
(*     a JSON body can carry a string, never a Date.                       *)
(***************************************************************************)
ZodErrors_Lenient(t, body, partial) ==
    {f \in BodyFields :
        /\ HasColumn(t, f)
        /\ f \notin OmittedKeys
        /\ \/ f = "status" /\ body[f] # ABSENT /\ StatusEnum(t) # {}
                           /\ body[f] \notin StatusEnum(t)
           \/ f = "completedDate" /\ body[f] # ABSENT}

ZodErrors(t, body, partial) ==
    {f \in BodyFields :
        /\ HasColumn(t, f)
        /\ f \notin OmittedKeys
        /\ \/ f = "name" /\ body[f] = ABSENT /\ ~partial
           \/ f = "status" /\ body[f] # ABSENT /\ StatusEnum(t) # {}
                           /\ body[f] \notin StatusEnum(t)
           \/ f = "completedDate" /\ body[f] # ABSENT}

\* The parsed data: the body's keys that are keys of the schema, which are the
\* table's columns without the omitted ones; every other key is stripped.
Parsed(t, body) ==
    [f \in BodyFields |-> IF HasColumn(t, f) /\ f \notin OmittedKeys THEN body[f]
                          ELSE EmptyBody[f]]

NewRow_NoId(t, id, data, createdBy) ==
    [id |-> NoId,
     name |-> data.name,
     status |-> IF data.status # ABSENT THEN data.status ELSE StatusDefault(t),
     completedDate |-> IF data.completedDate # ABSENT THEN data.completedDate ELSE NULL,
     comments |-> IF data.comments # ABSENT THEN data.comments ELSE NULL,
     custodianId |-> IF data.custodianId # ABSENT THEN data.custodianId ELSE NULL,
     userId |-> IF data.userId # ABSENT THEN data.userId ELSE NULL,
     createdBy |-> IF HasColumn(t, "createdBy") THEN createdBy ELSE NULL,
     location |-> <<>>,
     updatedAt |-> 0]

\* INSERT ... VALUES (data) RETURNING *: absent columns take their default.
\* updatedAt is the time of the row's latest write, counted in writes since
\* the insert (defaultNow() at the insert, new Date() at each later write).
NewRow(t, id, data, createdBy) ==
    [id |-> id,
     name |-> data.name,
     status |-> IF data.status # ABSENT THEN data.status ELSE StatusDefault(t),
     completedDate |-> IF data.completedDate # ABSENT THEN data.completedDate ELSE NULL,
     comments |-> IF data.comments # ABSENT THEN data.comments ELSE NULL,
     custodianId |-> IF data.custodianId # ABSENT THEN data.custodianId ELSE NULL,
     userId |-> IF data.userId # ABSENT THEN data.userId ELSE NULL,
     createdBy |-> IF HasColumn(t, "createdBy") THEN createdBy ELSE NULL,
     location |-> <<>>,
     updatedAt |-> 0]

SetRow_Replace(row, data) ==
    [row EXCEPT
        !.name = IF data.name # ABSENT THEN data.name ELSE NULL,
        !.status = IF data.status # ABSENT THEN data.status ELSE NULL,
        !.completedDate = IF data.completedDate # ABSENT THEN data.completedDate ELSE NULL,
        !.comments = IF data.comments # ABSENT THEN data.comments ELSE NULL,
        !.custodianId = IF data.custodianId # ABSENT THEN data.custodianId ELSE NULL,
        !.userId = IF data.userId # ABSENT THEN data.userId ELSE NULL,
        !.updatedAt = @ + 1]

\* UPDATE ... SET {...data, updatedAt: new Date()}: the keys present in data
\* overwrite, the rest stay, and updatedAt moves to the time of the write.
SetRow(row, data) ==
    [row EXCEPT
        !.id = IF data.id # NoId THEN data.id ELSE @,
        !.name = IF data.name # ABSENT THEN data.name ELSE @,
        !.status = IF data.status # ABSENT THEN data.status ELSE @,
        !.completedDate = IF data.completedDate # ABSENT THEN data.completedDate ELSE @,
        !.comments = IF data.comments # ABSENT THEN data.comments ELSE @,
        !.custodianId = IF data.custodianId # ABSENT THEN data.custodianId ELSE @,
        !.userId = IF data.userId # ABSENT THEN data.userId ELSE @,
        !.updatedAt = @ + 1]

GetRow_AnyRow(t, id) ==
    IF tables[t] = {} THEN <<>> ELSE <<CHOOSE r \in tables[t] : TRUE>>

\* db.select().from(table).where(eq(table.id, id)): [row] destructured, so
\* <<>> is `undefined` and <<r>> the row.
GetRow(t, id) ==
    LET hit == {r \in tables[t] : r.id = id}
    IN IF hit = {} THEN <<>> ELSE <<CHOOSE r \in hit : TRUE>>

(***************************************************************************)
(* Requests.  pc is the handler's position: "idle" (not yet received),     *)
(* "write" (the existence check passed, the store write is next), "audit"  *)
(* (the store write returned, createAuditLog is next), "done" (answered).  *)
(*   old  : what the handler's first read returned (oldAsset, asset, ...)  *)
(*   row  : what the store write returned (the inserted or updated row)    *)
(*   n    : the value nextval() handed to this request's insert, 0 if none *)
(*   q    : the numbers of a spatial call (lng, lat[, radius]) as sent     *)
(*   queried, seen, result : whether a proximity query ran, the table it   *)
(*          ran on and the rows it returned, each with its distance        *)
(*   total : the count a list call's count query returned, -1 before it    *)
(*   code, msg, errors : the response                                      *)
(***************************************************************************)
IdleReq ==
    [pc |-> "idle", kind |-> "none", type |-> "none", id |-> NoId,
     body |-> EmptyBody, actor |-> NULL, old |-> <<>>, row |-> <<>>, n |-> 0,
     q |-> <<>>, queried |-> FALSE, seen |-> {}, result |-> <<>>, total |-> -1,
     code |-> 0, msg |-> "", errors |-> {}]

\* Requests are received in slot order.
CanReceive(s) ==
    /\ reqs[s].pc = "idle"
    /\ s > 1 => reqs[s - 1].pc # "idle"

Respond(s, r, code, msg) ==
    reqs' = [reqs EXCEPT ![s] = [r EXCEPT !.pc = "done", !.code = code, !.msg = msg]]

\* Routes registered per entity type.
CreateTypes == Types

UpdateTypes == {"asset", "staff", "workflow"}

DeleteTypes == {"asset", "staff"}

\* The PRIMARY KEY of the id column: an insert whose id is already in the table
\* throws.
PkConflict_None(t, id) == FALSE

PkConflict(t, id) == GetRow(t, id) # <<>>

(***************************************************************************)
(* POST /api/{type}: parse the body, then storage.create*(validatedData).  *)
(* The id column's default is evaluated by the INSERT: nextval() advances  *)
(* the sequence whether or not the row is then accepted.                   *)
(***************************************************************************)
\* The create routes that stamp the caller on the data they parse
\* ({...req.body, createdBy: authReq.user!.claims.sub}); POST /api/staff does not.
ActorStamped(t) == t # "staff"

\* req.user is optional (AuthRequest): NULL is a request without it.  Reading
\* user!.claims then throws, before the body is parsed.
CreateInsert(s, t, body, actor, uuid) ==
    /\ CanReceive(s)
    /\ LET r0 == [IdleReq EXCEPT !.kind = "create", !.type = t, !.body = body,
                                 !.actor = actor]
           errs == ZodErrors(t, body, FALSE)
           id == IF t \in SeqTypes THEN SeqId(t, seq[t]) ELSE uuid
           new == NewRow(t, id, Parsed(t, body), actor)
       IN IF actor = NULL /\ ActorStamped(t)
          THEN /\ Respond(s, r0, 500, "Failed to create")
               /\ UNCHANGED <<seq, tables, auditLogs>>
          ELSE IF errs # {}
          THEN /\ Respond(s, [r0 EXCEPT !.errors = errs], 400, "Invalid data")
               /\ UNCHANGED <<seq, tables, auditLogs>>
          ELSE /\ seq' = IF t \in SeqTypes THEN [seq EXCEPT ![t] = @ + 1] ELSE seq
               /\ IF PkConflict(t, id)
                  THEN \* primary key violation: the insert throws
                       /\ Respond(s, [r0 EXCEPT !.n = IF t \in SeqTypes THEN seq[t] ELSE 0],
                                  500, "Failed to create")
                       /\ UNCHANGED <<tables, auditLogs>>
                  ELSE /\ tables' = [tables EXCEPT ![t] = @ \cup {new}]
                       /\ reqs' = [reqs EXCEPT ![s] =
                                     [r0 EXCEPT !.pc = "audit", !.id = id, !.row = <<new>>,
                                                !.n = IF t \in SeqTypes THEN seq[t] ELSE 0]]
                       /\ UNCHANGED auditLogs

\* POST /api/{type} when the INSERT is rejected while its id default is
\* evaluated (nextval() raises: the sequence is missing or at its maximum).
\* The statement writes nothing and the handler's catch answers 500.
CreateInsertThrows(s, t, body, actor) ==
    /\ CanReceive(s)
    /\ t \in SeqTypes
    /\ actor # NULL
    /\ ZodErrors(t, body, FALSE) = {}
    /\ Respond(s, [IdleReq EXCEPT !.kind = "create", !.type = t, !.body = body,
                                  !.actor = actor], 500, "Failed to create")
    /\ UNCHANGED <<seq, tables, auditLogs>>

(***************************************************************************)
(* The createAuditLog helper followed by the handler's answer.             *)
(***************************************************************************)
AuditAction_Update(kind) == "update"

\* The action literal each handler passes to createAuditLog.
AuditAction(kind) == kind

SuccessCode(kind) ==
    CASE kind = "create" -> 201
      [] kind = "delete" -> 204
      [] OTHER -> 200

OldValues_Row(r) ==
    CASE r.kind = "location_update" -> <<[location |-> r.old[1].location]>>
      [] r.kind = "delete" -> r.row
      [] OTHER -> r.row

\* The oldValues / newValues arguments of the handlers' createAuditLog calls;
\* <<>> is `undefined`.
OldValues(r) ==
    CASE r.kind = "create" -> <<>>
      [] r.kind = "location_update" -> <<[location |-> r.old[1].location]>>
      [] OTHER -> r.old

NewValues(r) ==
    CASE r.kind = "delete" -> <<>>
      [] r.kind = "location_update" -> <<[location |-> <<r.q[1].v, r.q[2].v>>]>>
      [] OTHER -> r.row

AuditLogged_Latest(log, s, r) ==
    IF r.actor # NULL
    THEN <<[entityType |-> r.type, entityId |-> r.id,
            action |-> AuditAction(r.kind), userId |-> r.actor,
            oldValues |-> OldValues(r),
            newValues |-> NewValues(r),
            slot |-> s]>>
    ELSE log

\* storage.createAuditLog(...) is called only if req.user?.claims?.sub is set.
AuditLogged(log, s, r) ==
    IF r.actor # NULL
    THEN Append(log, [entityType |-> r.type, entityId |-> r.id,
                      action |-> AuditAction(r.kind), userId |-> r.actor,
                      oldValues |-> OldValues(r),
                      newValues |-> NewValues(r),
                      slot |-> s])
    ELSE log

\* `ok` is whether the audit INSERT goes through; when it throws, the handler's
\* catch answers 500 although the entity write is already committed.
AuditRespond(s, ok) ==
    /\ reqs[s].pc = "audit"
    /\ IF ok \/ reqs[s].actor = NULL
       THEN /\ auditLogs' = AuditLogged(auditLogs, s, reqs[s])
            /\ Respond(s, reqs[s], SuccessCode(reqs[s].kind), "")
       ELSE /\ UNCHANGED auditLogs
            /\ Respond(s, reqs[s], 500, "Failed")
    /\ UNCHANGED <<seq, tables>>

(***************************************************************************)
(* PUT /api/{type}/:id.  First await: storage.get*(id), 404 when it finds  *)
(* nothing.  Then the body is parsed with schema.partial() and             *)
(* storage.update*(id, validatedData) runs one UPDATE ... RETURNING.       *)
(***************************************************************************)
UpdateGet(s, t, id, body, actor) ==
    /\ CanReceive(s)
    /\ LET r0 == [IdleReq EXCEPT !.kind = "update", !.type = t, !.id = id,
                                 !.body = body, !.actor = actor]
           old == GetRow(t, id)
       IN IF old = <<>>
          THEN Respond(s, r0, 404, "not found")
          ELSE reqs' = [reqs EXCEPT ![s] = [r0 EXCEPT !.pc = "write", !.old = old]]
    /\ UNCHANGED <<seq, tables, auditLogs>>

\* UPDATE table SET {...data} WHERE id = :id: every row with that id.
UpdatedRows(t, id, data) ==
    {IF r.id = id THEN SetRow(r, data) ELSE r : r \in tables[t]}

\* ... RETURNING *, destructured as [updated]: `undefined` when no row matched.
Returning(t, id, data) ==
    LET hit == {r \in tables[t] : r.id = id}
    IN IF hit = {} THEN <<>> ELSE <<SetRow(CHOOSE r \in hit : TRUE, data)>>

UpdateWrite(s) ==
    /\ reqs[s].pc = "write"
    /\ reqs[s].kind = "update"
    /\ LET r == reqs[s]
           errs == ZodErrors(r.type, r.body, TRUE)
           data == Parsed(r.type, r.body)
       IN IF errs # {}
          THEN /\ Respond(s, [r EXCEPT !.errors = errs], 400, "Invalid data")
               /\ UNCHANGED tables
          ELSE /\ tables' = [tables EXCEPT ![r.type] = UpdatedRows(r.type, r.id, data)]
               /\ reqs' = [reqs EXCEPT ![s] =
                             [r EXCEPT !.pc = "audit", !.row = Returning(r.type, r.id, data)]]
    /\ UNCHANGED <<seq, auditLogs>>

(***************************************************************************)
(* DELETE /api/{type}/:id: storage.get*(id), 404 when it finds nothing,    *)
(* then storage.delete*(id).                                               *)
(***************************************************************************)
DeleteGet(s, t, id, actor) ==
    /\ CanReceive(s)
    /\ LET r0 == [IdleReq EXCEPT !.kind = "delete", !.type = t, !.id = id,
                                 !.actor = actor]
           old == GetRow(t, id)
       IN IF old = <<>>
          THEN Respond(s, r0, 404, "not found")
          ELSE reqs' = [reqs EXCEPT ![s] = [r0 EXCEPT !.pc = "write", !.old = old]]
    /\ UNCHANGED <<seq, tables, auditLogs>>

\* DELETE FROM table WHERE id = :id
RowsAfterDelete(t, id) == {r \in tables[t] : r.id # id}

DeleteWrite(s) ==
    /\ reqs[s].pc = "write"
    /\ reqs[s].kind = "delete"
    /\ tables' = [tables EXCEPT ![reqs[s].type] = RowsAfterDelete(reqs[s].type, reqs[s].id)]
    /\ reqs' = [reqs EXCEPT ![s].pc = "audit"]
    /\ UNCHANGED <<seq, auditLogs>>

(***************************************************************************)
(* Spatial calls.  A number sent by the client is missing, not a number,   *)
(* or a number; coordinates are whole degrees, distances whole metres.     *)
(***************************************************************************)
NumP(v) == [k |-> "num", v |-> v]

MissingP == [k |-> "missing", v |-> 0]

NanP == [k |-> "nan", v |-> 0]

LngMax == 180

LatMax == 90

RadiusMax == 100000

Abs(x) == IF x < 0 THEN -x ELSE x

\* ST_Distance(a::geography, b::geography): the WGS84 geodesic distance, given
\* here for the points the runs use: points on the parallel 89 N one or two
\* degrees of longitude apart, and the pole.
GeoDistance(p, q) ==
    CASE p = q -> 0
      [] p # q /\ p[2] = 89 /\ q[2] = 89 /\ Abs(p[1] - q[1]) = 1 -> 1949
      [] p # q /\ p[2] = 89 /\ q[2] = 89 /\ Abs(p[1] - q[1]) = 2 -> 3898
      [] p # q /\ {p[2], q[2]} = {89, 90} -> 111694

\* spatialUtils.withinDistance: ST_DWithin(column::geography, point, radius),
\* true when the distance is at most the radius; NULL (not true) for a NULL column.
WithinDistance_Strict(loc, p, radiusMeters) ==
    loc # <<>> /\ GeoDistance(loc, p) < radiusMeters

WithinDistance(loc, p, radiusMeters) ==
    loc # <<>> /\ GeoDistance(loc, p) <= radiusMeters

\* WHERE location IS NOT NULL AND ST_DWithin(...), each row selected with its
\* distance column.
NearMatches_NoFilter(rows, p, radiusMeters) ==
    {[row |-> r, distance |-> IF r.location = <<>> THEN 0 ELSE GeoDistance(r.location, p)] :
        r \in rows}

NearMatches(rows, p, radiusMeters) ==
    {[row |-> r, distance |-> GeoDistance(r.location, p)] :
        r \in {x \in rows : x.location # <<>> /\ WithinDistance(x.location, p, radiusMeters)}}

\* ORDER BY distance: ascending; rows of equal distance come in any order.
OrderKey_None(m) == 0

OrderKey(m) == m.distance

RECURSIVE OrderBy(_)
OrderBy(ms) ==
    IF ms = {} THEN {<<>>}
    ELSE UNION {{<<m>> \o rest : rest \in OrderBy(ms \ {m})} :
                  m \in {x \in ms : \A y \in ms : OrderKey(x) <= OrderKey(y)}}

NearError_ZeroRadius(lng, lat, radius) ==
    IF "missing" \in {lng.k, lat.k, radius.k}
    THEN "longitude, latitude, and radius are required"
    ELSE IF "nan" \in {lng.k, lat.k, radius.k}
    THEN "Invalid coordinate or radius values"
    ELSE IF lng.v < -LngMax \/ lng.v > LngMax
    THEN "Longitude must be between -180 and 180"
    ELSE IF lat.v < -LatMax \/ lat.v > LatMax
    THEN "Latitude must be between -90 and 90"
    ELSE IF radius.v < 0 \/ radius.v > RadiusMax
    THEN "Radius must be between 0 and 100,000 meters"
    ELSE ""

\* The validation of GET /api/spatial/{assets,staff}: "" when the numbers
\* pass, else the message of the 400 answer.  The checks run in this order and
\* the first that fails answers.
NearError(lng, lat, radius) ==
    IF "missing" \in {lng.k, lat.k, radius.k}
    THEN "longitude, latitude, and radius are required"
    ELSE IF "nan" \in {lng.k, lat.k, radius.k}
    THEN "Invalid coordinate or radius values"
    ELSE IF lng.v < -LngMax \/ lng.v > LngMax
    THEN "Longitude must be between -180 and 180"
    ELSE IF lat.v < -LatMax \/ lat.v > LatMax
    THEN "Latitude must be between -90 and 90"
    ELSE IF radius.v <= 0 \/ radius.v > RadiusMax
    THEN "Radius must be between 0 and 100,000 meters"
    ELSE ""

SpatialTypes == {"asset", "staff"}

(***************************************************************************)
(* GET /api/spatial/{assets,staff}?lng&lat&radius: validate, then one      *)
(* SELECT (storage.get*NearLocation).                                      *)
(***************************************************************************)
Near(s, t, lng, lat, radius, actor) ==
    /\ CanReceive(s)
    /\ LET r0 == [IdleReq EXCEPT !.kind = "near", !.type = t, !.actor = actor,
                                 !.q = <<lng, lat, radius>>]
           err == NearError(lng, lat, radius)
       IN IF err # ""
          THEN Respond(s, r0, 400, err)
          ELSE \E res \in OrderBy(NearMatches(tables[t], <<lng.v, lat.v>>, radius.v)) :
                  Respond(s, [r0 EXCEPT !.queried = TRUE, !.seen = tables[t],
                                        !.result = res], 200, "")
    /\ UNCHANGED <<seq, tables, auditLogs>>

(***************************************************************************)
(* PUT /api/{assets,staff}/:id/location.  The body is parsed first         *)
(* (z.number().min().max() per coordinate), then the row is read: 404 when *)
(* missing, 403 when the caller does not own it.  The second await is the  *)
(* UPDATE of the point, the third the audit record.                        *)
(***************************************************************************)
LocationErrors_Exclusive(lng, lat) ==
    {f \in {"longitude", "latitude"} :
        \/ f = "longitude" /\ (lng.k # "num" \/ lng.v <= -LngMax \/ lng.v >= LngMax)
        \/ f = "latitude" /\ (lat.k # "num" \/ lat.v <= -LatMax \/ lat.v >= LatMax)}

LocationErrors(lng, lat) ==
    {f \in {"longitude", "latitude"} :
        \/ f = "longitude" /\ (lng.k # "num" \/ lng.v < -LngMax \/ lng.v > LngMax)
        \/ f = "latitude" /\ (lat.k # "num" \/ lat.v < -LatMax \/ lat.v > LatMax)}

OwnedBy_Anyone(t, row, userId) == TRUE

\* Assets: the custodian or the creator.  Staff: the user the record is of.
OwnedBy(t, row, userId) ==
    IF t = "asset"
    THEN ~(row.custodianId # userId /\ row.createdBy # userId)
    ELSE ~(row.userId # userId)

SetLocationGet(s, t, id, lng, lat, actor) ==
    /\ CanReceive(s)
    /\ LET r0 == [IdleReq EXCEPT !.kind = "location_update", !.type = t, !.id = id,
                                 !.actor = actor, !.q = <<lng, lat>>]
           errs == LocationErrors(lng, lat)
           old == GetRow(t, id)
       IN IF errs # {}
          THEN Respond(s, [r0 EXCEPT !.errors = errs], 400, "Invalid data")
          ELSE IF old = <<>>
          THEN Respond(s, r0, 404, "not found")
          ELSE IF actor = NULL
          THEN \* authReq.user!.claims throws
               Respond(s, r0, 500, "Failed to update location")
          ELSE IF ~OwnedBy(t, old[1], actor)
          THEN Respond(s, r0, 403, "no permission")
          ELSE reqs' = [reqs EXCEPT ![s] = [r0 EXCEPT !.pc = "write", !.old = old]]
    /\ UNCHANGED <<seq, tables, auditLogs>>

\* UPDATE table SET location = ST_SetSRID(ST_MakePoint(lng, lat), 4326),
\* updated_at = now WHERE id = :id
LocatedRows(t, id, p) ==
    {IF r.id = id THEN [r EXCEPT !.location = p, !.updatedAt = @ + 1] ELSE r : r \in tables[t]}

SetLocationWrite(s) ==
    /\ reqs[s].pc = "write"
    /\ reqs[s].kind = "location_update"
    /\ LET r == reqs[s]
           p == <<r.q[1].v, r.q[2].v>>
           hit == {x \in tables[r.type] : x.id = r.id}
       IN /\ tables' = [tables EXCEPT ![r.type] = LocatedRows(r.type, r.id, p)]
          /\ reqs' = [reqs EXCEPT ![s] =
                        [r EXCEPT !.pc = "audit",
                                  !.row = IF hit = {} THEN <<>>
                                          ELSE <<[(CHOOSE x \in hit : TRUE) EXCEPT !.location = p,
                                                                            !.updatedAt = @ + 1]>>]]
    /\ UNCHANGED <<seq, auditLogs>>

(***************************************************************************)
(* The state after the migration has run: empty tables, every sequence at  *)
(* its START value.                                                        *)
(***************************************************************************)
Init ==
    /\ seq = [t \in SeqTypes |-> SeqStart]
    /\ tables = [t \in Types |-> {}]
    /\ auditLogs = <<>>
    /\ reqs = [s \in Slots |-> IdleReq]

\* The :id a client can put in a path: the id of a row, an id some earlier
\* request carried, or any other.
KnownIds(t) ==
    ({reqs[s].id : s \in {x \in DOMAIN reqs : reqs[x].type = t}} \ {NoId})
        \cup {r.id : r \in tables[t]}

PathIds(t) == KnownIds(t) \cup {UnknownId}

\* Request bodies of the CRUD runs: with and without the required column.
Bodies == {[EmptyBody EXCEPT !.name = nm] : nm \in {ABSENT, "n1"}}

\* The draw of gen_random_uuid() matters to staff only.
UuidsOf(t) == IF t \in SeqTypes THEN {NoId} ELSE Uuids

Next ==
    \/ \E s \in Slots, t \in CreateTypes, b \in Bodies :
          \E u \in UuidsOf(t) : CreateInsert(s, t, b, "u1", u)
    \/ \E s \in Slots, t \in UpdateTypes, b \in Bodies :
          \E id \in PathIds(t) : UpdateGet(s, t, id, b, "u1")
    \/ \E s \in Slots : UpdateWrite(s)
    \/ \E s \in Slots, t \in DeleteTypes :
          \E id \in PathIds(t) : DeleteGet(s, t, id, "u1")
    \/ \E s \in Slots : DeleteWrite(s)
    \/ \E s \in Slots, t \in SpatialTypes, p \in {<<0, 89>>, <<0, 91>>} :
          \E id \in PathIds(t) : SetLocationGet(s, t, id, NumP(p[1]), NumP(p[2]), "u1")
    \/ \E s \in Slots : SetLocationWrite(s)
    \/ \E s \in Slots, ok \in BOOLEAN : AuditRespond(s, ok)

Spec == Init /\ [][Next]_vars

(***************************************************************************)
(* Identifier allocation.                                                  *)
(*                                                                         *)
(* InitAged is the store after the asset sequence has handed out every     *)
(* value below the last one that fits the FM0000 template, all of those    *)
(* rows since deleted (POST then DELETE, repeated); the other sequences    *)
(* are fresh.  Its audit log is left empty: no allocation reads it.        *)
(***************************************************************************)
LastFitting == Pow10(FmtDigits) - 1

InitAged ==
    /\ seq = [t \in SeqTypes |-> IF t = "asset" THEN LastFitting ELSE SeqStart]
    /\ tables = [t \in Types |-> {}]
    /\ auditLogs = <<>>
    /\ reqs = [s \in Slots |-> IdleReq]

InitFreshOrAged == Init \/ InitAged

\* Concurrent create calls only.
NextCreate ==
    \/ \E s \in Slots, t \in SeqTypes, b \in Bodies : CreateInsert(s, t, b, "u1", NoId)
    \/ \E s \in Slots, ok \in BOOLEAN : AuditRespond(s, ok)

SpecCreate == InitFreshOrAged /\ [][NextCreate]_vars

\* Create and delete calls on assets, from the aged store.
NextAged ==
    \/ \E s \in Slots, b \in Bodies : CreateInsert(s, "asset", b, "u1", NoId)
    \/ \E s \in Slots : \E id \in PathIds("asset") : DeleteGet(s, "asset", id, "u1")
    \/ \E s \in Slots : DeleteWrite(s)
    \/ \E s \in Slots, ok \in BOOLEAN : AuditRespond(s, ok)

SpecAged == InitAged /\ [][NextAged]_vars

\* The creations that persisted a row, of type t.
Creations(t) ==
    {s \in Slots : reqs[s].kind = "create" /\ reqs[s].type = t /\ reqs[s].row # <<>>}

\* parseInt of an identifier's suffix; -1 (NaN) when it is no digit string.
RECURSIVE DigitsValue(_)
DigitsValue(cs) ==
    IF cs = <<>> THEN 0
    ELSE LET d == {k \in 1..10 : DigitChar[k] = cs[Len(cs)]}
             rest == DigitsValue(SubSeq(cs, 1, Len(cs) - 1))
         IN IF d = {} \/ rest < 0 THEN -1 ELSE 10 * rest + (CHOOSE k \in d : TRUE) - 1

IdNumber(id) == IF id[2] = <<>> THEN -1 ELSE DigitsValue(id[2])

\* C1: of the create calls of one sequence-backed type that run concurrently,
\* no two that persisted an entity were given the same identifier.
C1_DistinctIds ==
    \A t \in SeqTypes : \A a, b \in Creations(t) :
        a # b => reqs[a].id # reqs[b].id

\* C1 witness: three create calls of one type are in flight together, each
\* with its row inserted and its identifier assigned.
C1_Witness ==
    \E t \in SeqTypes :
        /\ Cardinality(Creations(t)) = MaxReq
        /\ \A s \in Creations(t) : reqs[s].pc = "audit"

\* C2 (as stated): identifiers start at 1000, strictly increase in allocation
\* order and are never reused, deleted entities included.
C2_SeededIncreasingNeverReused ==
    \A t \in SeqTypes : \A a, b \in Creations(t) :
        /\ reqs[a].n = SeqStart => reqs[a].id = <<Prefix(t), <<"1", "0", "0", "0">>>>
        /\ reqs[a].n < reqs[b].n =>
              /\ reqs[a].id # reqs[b].id
              /\ IdNumber(reqs[a].id) < IdNumber(reqs[b].id)

(***************************************************************************)
(* Audit trail of the mutating calls.                                      *)
(***************************************************************************)
Mutations == {"create", "update", "delete"}

Succeeded(r) == r.pc = "done" /\ r.code \in {200, 201, 204}

\* The audit records written by the request in slot s.
RecordsOf(s) == {i \in 1..Len(auditLogs) : auditLogs[i].slot = s}

\* C3: a create, update or delete call by an authenticated actor that answered
\* success has written exactly one audit record, for the entity it mutated and
\* with the call's kind as action.
C3_OneAuditRecordPerSuccess ==
    \A s \in Slots :
        (Succeeded(reqs[s]) /\ reqs[s].kind \in Mutations /\ reqs[s].actor # NULL) =>
            /\ Cardinality(RecordsOf(s)) = 1
            /\ \A i \in RecordsOf(s) :
                  /\ auditLogs[i].entityType = reqs[s].type
                  /\ auditLogs[i].entityId = reqs[s].id
                  /\ auditLogs[i].action = reqs[s].kind
                  /\ auditLogs[i].userId = reqs[s].actor

\* C3 witness: a create, an update and a delete have all answered success.
C3_Witness ==
    \A k \in Mutations : \E s \in Slots : Succeeded(reqs[s]) /\ reqs[s].kind = k

(***************************************************************************)
(* Workflows: POST /api/workflows and PUT /api/workflows/:id, with bodies  *)
(* that carry status, completedDate and comments.                          *)
(***************************************************************************)
Terminal == {"approved", "rejected", "completed"}

WfCreateBodies ==
    {[EmptyBody EXCEPT !.name = "n1", !.status = st, !.completedDate = cd] :
        st \in {ABSENT, "approved"}, cd \in {ABSENT, IsoDate}}

WfUpdateBodies ==
    {[EmptyBody EXCEPT !.status = st, !.completedDate = cd, !.comments = cm] :
        st \in {ABSENT, "pending", "approved", "rejected", "completed", "bogus"},
        cd \in {ABSENT, IsoDate}, cm \in {ABSENT, "why"}}

NextWf ==
    \/ \E s \in Slots, b \in WfCreateBodies : CreateInsert(s, "workflow", b, "u1", NoId)
    \/ \E s \in Slots, b \in WfUpdateBodies :
          \E id \in PathIds("workflow") : UpdateGet(s, "workflow", id, b, "u1")
    \/ \E s \in Slots : UpdateWrite(s)
    \/ \E s \in Slots, ok \in BOOLEAN : AuditRespond(s, ok)

SpecWf == Init /\ [][NextWf]_vars

\* C4 (as stated): approved, rejected and completed are terminal; no request
\* changes the stored status of a workflow that has one of them.
C4_TerminalStatusStays ==
    [][\A w \in tables["workflow"] :
          w.status \in Terminal =>
              \A w2 \in tables'["workflow"] : w2.id = w.id => w2.status = w.status]_vars

\* C5 (as stated): the only status changes out of pending are to approved and
\* to rejected.
C5_PendingOnlyToApprovedOrRejected ==
    [][\A w \in tables["workflow"] :
          w.status = "pending" =>
              \A w2 \in tables'["workflow"] :
                  w2.id = w.id => w2.status \in {"pending", "approved", "rejected"}]_vars

\* C6 (as stated): a workflow has completedDate set exactly when its status is
\* approved, rejected or completed.
C6_CompletedDateIffTerminal ==
    \A w \in tables["workflow"] : (w.completedDate # NULL) <=> (w.status \in Terminal)

\* C7 (as stated): the workflow a create call persists has status pending.
C7_CreatedPending ==
    \A s \in Creations("workflow") : reqs[s].row[1].status = "pending"

(***************************************************************************)
(* Validation of the proximity query: one call per run, on the fresh       *)
(* store, over every combination of the sampled numbers.                   *)
(***************************************************************************)
MaxNearReq == 1

NearLngs == {MissingP, NanP} \cup {NumP(v) : v \in {-181, -180, 0, 180, 181, 200}}

NearLats == {MissingP} \cup {NumP(v) : v \in {-91, -90, 0, 90, 91}}

NearRadii == {NanP} \cup {NumP(v) : v \in {0, 1, 100, 100000, 100001, 200000}}

InitNearArgs ==
    /\ seq = [t \in SeqTypes |-> SeqStart]
    /\ tables = [t \in Types |-> {}]
    /\ auditLogs = <<>>
    /\ reqs = [s \in 1..MaxNearReq |-> IdleReq]

NextNearArgs ==
    \E s \in DOMAIN reqs, t \in SpatialTypes :
        \E lng \in NearLngs, lat \in NearLats, radius \in NearRadii :
            Near(s, t, lng, lat, radius, "u1")

SpecNearArgs == InitNearArgs /\ [][NextNearArgs]_vars

NearCalls == {s \in DOMAIN reqs : reqs[s].kind = "near" /\ reqs[s].pc = "done"}

AllNumbers(q) == \A i \in 1..Len(q) : q[i].k = "num"

\* The fields of a query that break the stated ranges.
OutOfRange(q) ==
    {f \in {"longitude", "latitude", "radius"} :
        \/ f = "longitude" /\ ~(-180 <= q[1].v /\ q[1].v <= 180)
        \/ f = "latitude" /\ ~(-90 <= q[2].v /\ q[2].v <= 90)
        \/ f = "radius" /\ ~(0 < q[3].v /\ q[3].v <= 100000)}

\* The field a 400 message is about.
FieldNamed(msg) ==
    CASE msg = "Longitude must be between -180 and 180" -> "longitude"
      [] msg = "Latitude must be between -90 and 90" -> "latitude"
      [] msg = "Radius must be between 0 and 100,000 meters" -> "radius"
      [] OTHER -> "none"

\* C8: the store query runs exactly when longitude is in [-180,180], latitude
\* in [-90,90] and 0 < radius <= 100000; a call whose numbers break a range
\* is answered 400 with a message about a field that is out of range, and a
\* call with a missing or non-numeric value is answered 400; neither queries.
C8_NearValidated ==
    \A s \in NearCalls :
        LET r == reqs[s]
        IN /\ r.queried <=> (AllNumbers(r.q) /\ OutOfRange(r.q) = {})
           /\ r.queried <=> r.code = 200
           /\ ~r.queried => r.code = 400 /\ r.result = <<>>
           /\ (AllNumbers(r.q) /\ OutOfRange(r.q) # {}) => FieldNamed(r.msg) \in OutOfRange(r.q)
           /\ r.q = <<NumP(200), NumP(0), NumP(100)>> => FieldNamed(r.msg) = "longitude"
           /\ r.q = <<NumP(0), NumP(0), NumP(200000)>> => FieldNamed(r.msg) = "radius"

\* C8 witness: a query at the inclusive ends of all three ranges has run.
C8_Witness ==
    \E s \in NearCalls :
        /\ reqs[s].q = <<NumP(-180), NumP(90), NumP(100000)>>
        /\ reqs[s].queried

(***************************************************************************)
(* Proximity queries over a populated store.  InitGeo is a store after     *)
(* three assets and one staff record were created by u1 and some of them   *)
(* were given a point by the location calls; the runs query it.  The       *)
(* points lie on the parallel 89 N.                                        *)
(***************************************************************************)
GeoAssets == 3

StoredPoints == {<<0, 89>>, <<1, 89>>, <<2, 89>>}

GeoAssetRow(k, loc) ==
    [NewRow("asset", SeqId("asset", SeqStart + k), [EmptyBody EXCEPT !.name = "n1"], "u1")
        EXCEPT !.location = loc]

GeoStaffRow(loc) ==
    [NewRow("staff", <<"", <<"a">>>>, [EmptyBody EXCEPT !.name = "n1", !.userId = "u1"], NULL)
        EXCEPT !.location = loc]

InitGeo ==
    /\ seq = [t \in SeqTypes |-> IF t = "asset" THEN SeqStart + GeoAssets ELSE SeqStart]
    /\ \E locs \in [0..GeoAssets - 1 -> StoredPoints \cup {<<>>}],
          sloc \in StoredPoints \cup {<<>>} :
          tables = [t \in Types |->
                      CASE t = "asset" -> {GeoAssetRow(k, locs[k]) : k \in 0..GeoAssets - 1}
                        [] t = "staff" -> {GeoStaffRow(sloc)}
                        [] OTHER -> {}]
    /\ auditLogs = <<>>
    /\ reqs = [s \in 1..MaxNearReq |-> IdleReq]

GeoQueries ==
    {<<NumP(p[1]), NumP(p[2]), NumP(r)>> :
        p \in {<<0, 89>>, <<1, 89>>, <<0, 90>>}, r \in {1, 1949, 100000}}
    \cup {<<NumP(0), NumP(89), NumP(0)>>}

NextGeo ==
    \E s \in DOMAIN reqs, t \in SpatialTypes, q \in GeoQueries :
        Near(s, t, q[1], q[2], q[3], "u1")

SpecGeo == InitGeo /\ [][NextGeo]_vars

\* The proximity queries that ran.
NearResults == {s \in NearCalls : reqs[s].queried}

QueryPoint(r) == <<r.q[1].v, r.q[2].v>>

\* C9: a proximity query returns only entities of the queried table that have
\* a stored point at most radius away from the query point, each with that
\* distance, and in an order in which the distance never decreases.
C9_NearWithinRadiusOrdered ==
    \A s \in NearResults :
        LET r == reqs[s]
        IN /\ \A i \in 1..Len(r.result) :
                 /\ r.result[i].row \in r.seen
                 /\ r.result[i].row.location # <<>>
                 /\ r.result[i].distance = GeoDistance(r.result[i].row.location, QueryPoint(r))
                 /\ r.result[i].distance <= r.q[3].v
           /\ \A i, j \in 1..Len(r.result) :
                 i < j => r.result[i].distance <= r.result[j].distance

\* C9 witness: a query returned two entities at different distances, the
\* nearer one created later, while the table also held an entity without a
\* point.
C9_Witness ==
    \E s \in NearResults :
        /\ Len(reqs[s].result) >= 2
        /\ reqs[s].result[1].distance < reqs[s].result[2].distance
        /\ IdNumber(reqs[s].result[1].row.id) > IdNumber(reqs[s].result[2].row.id)
        /\ \E x \in reqs[s].seen : x.location = <<>>

\* C10 (as stated): only candidates strictly within the radius are returned.
C10_StrictlyWithin ==
    \A s \in NearResults :
        \A i \in 1..Len(reqs[s].result) : reqs[s].result[i].distance < reqs[s].q[3].v

\* C10 (amended): every entity whose point is at most radius away is
\* returned, the ones exactly radius away included.
C10_WithinInclusive ==
    \A s \in NearResults :
        \A x \in reqs[s].seen :
            (x.location # <<>> /\ GeoDistance(x.location, QueryPoint(reqs[s])) <= reqs[s].q[3].v)
                => \E i \in 1..Len(reqs[s].result) : reqs[s].result[i].row = x

\* C10 witness: a returned entity lies exactly radius away.
C10_Witness ==
    \E s \in NearResults :
        \E i \in 1..Len(reqs[s].result) : reqs[s].result[i].distance = reqs[s].q[3].v

(***************************************************************************)
(* Location calls.  InitLoc is a store that holds one asset and one staff  *)
(* record, created earlier; who created the asset, who is its custodian,   *)
(* which user the staff record is of and whether the asset has a point     *)
(* vary.  The caller is u1 throughout.                                     *)
(***************************************************************************)
MaxLocReq == 2

LocAssetId == SeqId("asset", SeqStart)

LocStaffId == <<"", <<"a">>>>

LocAssetRow(creator, custodian, loc) ==
    [NewRow("asset", LocAssetId,
            [EmptyBody EXCEPT !.name = "n1",
                              !.custodianId = IF custodian = NULL THEN ABSENT ELSE custodian],
            creator)
        EXCEPT !.location = loc]

LocStaffRow(user) ==
    NewRow("staff", LocStaffId,
           [EmptyBody EXCEPT !.name = "n1", !.userId = IF user = NULL THEN ABSENT ELSE user],
           NULL)

InitLoc ==
    /\ seq = [t \in SeqTypes |-> IF t = "asset" THEN SeqStart + 1 ELSE SeqStart]
    /\ \E creator \in Users, custodian \in Users \cup {NULL}, user \in Users,
          loc \in {<<>>, <<1, 89>>} :
          tables = [t \in Types |->
                      CASE t = "asset" -> {LocAssetRow(creator, custodian, loc)}
                        [] t = "staff" -> {LocStaffRow(user)}
                        [] OTHER -> {}]
    /\ auditLogs = <<>>
    /\ reqs = [s \in 1..MaxLocReq |-> IdleReq]

\* The points the location calls of these runs send.
LocPoints == {<<0, 89>>, <<2, 89>>}

NextLoc ==
    \/ \E s \in DOMAIN reqs, t \in SpatialTypes, p \in LocPoints :
          \E id \in PathIds(t) : SetLocationGet(s, t, id, NumP(p[1]), NumP(p[2]), "u1")
    \/ \E s \in DOMAIN reqs : SetLocationWrite(s)
    \/ \E s \in DOMAIN reqs, t \in SpatialTypes :
          \E id \in PathIds(t) : DeleteGet(s, t, id, "u1")
    \/ \E s \in DOMAIN reqs : DeleteWrite(s)
    \/ \E s \in DOMAIN reqs, ok \in BOOLEAN : AuditRespond(s, ok)

SpecLoc == InitLoc /\ [][NextLoc]_vars

\* The point a location call sends.
SentPoint(r) == <<r.q[1].v, r.q[2].v>>

\* C11 (as stated): a location call that succeeds appends exactly one audit
\* record, of action location_update and of that entity, whose old values hold
\* the point the call found and whose new values hold the point sent; and once
\* its store write has returned, the entity's stored point is the point sent.
C11_SetLocationAuditedAndStored ==
    [][\A s \in DOMAIN reqs :
          LET r == reqs[s]
          IN /\ (r.kind = "location_update" /\ r.pc = "write" /\ reqs'[s].pc = "audit") =>
                    \E x \in tables'[r.type] : x.id = r.id /\ x.location = SentPoint(r)
             /\ (r.kind = "location_update" /\ r.pc = "audit" /\ reqs'[s].pc = "done"
                    /\ reqs'[s].code = 200) =>
                    /\ Len(auditLogs') = Len(auditLogs) + 1
                    /\ SubSeq(auditLogs', 1, Len(auditLogs)) = auditLogs
                    /\ LET a == auditLogs'[Len(auditLogs')]
                       IN /\ a.action = "location_update"
                          /\ a.entityType = r.type
                          /\ a.entityId = r.id
                          /\ a.oldValues = <<[location |-> r.old[1].location]>>
                          /\ a.newValues = <<[location |-> SentPoint(r)]>>]_vars

(***************************************************************************)
(* Validation of the location call: one call per run on the store of       *)
(* InitLoc, over every combination of the numbers sampled for the          *)
(* proximity query.                                                        *)
(***************************************************************************)
InitLocArgs ==
    /\ seq = [t \in SeqTypes |-> IF t = "asset" THEN SeqStart + 1 ELSE SeqStart]
    /\ \E loc \in {<<>>, <<1, 89>>} :
          tables = [t \in Types |->
                      CASE t = "asset" -> {LocAssetRow("u1", NULL, loc)}
                        [] t = "staff" -> {LocStaffRow("u1")}
                        [] OTHER -> {}]
    /\ auditLogs = <<>>
    /\ reqs = [s \in 1..MaxNearReq |-> IdleReq]

NextLocArgs ==
    \/ \E s \in DOMAIN reqs, t \in SpatialTypes, lng \in NearLngs, lat \in NearLats :
          \E id \in PathIds(t) : SetLocationGet(s, t, id, lng, lat, "u1")
    \/ \E s \in DOMAIN reqs : SetLocationWrite(s)
    \/ \E s \in DOMAIN reqs, ok \in BOOLEAN : AuditRespond(s, ok)

SpecLocArgs == InitLocArgs /\ [][NextLocArgs]_vars

\* The coordinates of a call that break the stated ranges.
CoordsOutOfRange(q) ==
    \/ ~(-180 <= q[1].v /\ q[1].v <= 180)
    \/ ~(-90 <= q[2].v /\ q[2].v <= 90)

\* C12: a location call with a longitude outside [-180,180] or a latitude
\* outside [-90,90] is answered 400 without the row being read, leaves every
\* table and the audit log as they were, and the coordinates a location call
\* accepts are exactly those the proximity query accepts.
C12_SetLocationValidated ==
    [][\A s \in DOMAIN reqs :
          (reqs[s].pc = "idle" /\ reqs'[s].kind = "location_update") =>
              LET r == reqs'[s]
              IN /\ (AllNumbers(r.q) /\ CoordsOutOfRange(r.q)) =>
                        /\ r.pc = "done" /\ r.code = 400 /\ r.old = <<>>
                        /\ tables' = tables /\ auditLogs' = auditLogs
                 /\ AllNumbers(r.q) =>
                        ((r.pc = "done" /\ r.code = 400)
                            <=> NearError(r.q[1], r.q[2], NumP(1)) # "")]_vars

\* C12 witness: a call at the inclusive ends of both ranges went through, and
\* so the entity has that point.
C12_Witness ==
    \E s \in DOMAIN reqs :
        /\ reqs[s].kind = "location_update" /\ reqs[s].code = 200
        /\ reqs[s].q = <<NumP(180), NumP(-90)>>
        /\ \E x \in tables[reqs[s].type] : x.location = <<180, -90>>

\* The ownership rule as stated: an asset is owned by its custodian and by
\* its creator, a staff record by the user it belongs to.
IsOwner(t, row, actor) ==
    IF t = "asset" THEN actor \in {row.custodianId, row.createdBy}
    ELSE actor = row.userId

C14_UnknownIdNotFound ==
    [][\A s \in Slots :
          (reqs[s].pc = "idle" /\ reqs'[s].kind \in {"update", "delete"}) =>
              LET r == reqs'[s]
              IN (\A x \in tables[r.type] : x.id # r.id) =>
                    /\ r.pc = "done" /\ r.code = 404
                    /\ tables' = tables /\ seq' = seq /\ auditLogs' = auditLogs]_vars

\* C14 witness: with an asset in the store, an update and a delete of an
\* unknown asset id have both been answered 404.
C14_Witness ==
    /\ tables["asset"] # {}
    /\ \A k \in {"update", "delete"} :
          \E s \in Slots : /\ reqs[s].kind = k /\ reqs[s].type = "asset"
                           /\ reqs[s].id = UnknownId /\ reqs[s].code = 404

\* C15: the audit log is append-only: every step keeps the records already
\* written, unchanged and in place.
C15_AuditAppendOnly ==
    [][/\ Len(auditLogs') >= Len(auditLogs)
       /\ SubSeq(auditLogs', 1, Len(auditLogs)) = auditLogs]_vars

\* C15 witness: the log holds the records of three calls, a delete among them.
C15_Witness ==
    /\ Len(auditLogs) = MaxReq
    /\ \E i \in 1..Len(auditLogs) : auditLogs[i].action = "delete"

\* The request's store write went through.
Wrote(r) == r.pc \in {"audit", "done"} /\ r.kind \in Mutations /\ r.code # 404
              /\ (r.kind = "create" => r.row # <<>>)
              /\ (r.kind = "update" => r.errors = {})

\* C16 (as stated): a call whose entity write went through is answered with
\* the mutation's success response, whether or not its audit write failed.
C16_AuditFailureNotMasking ==
    \A s \in Slots :
        (Wrote(reqs[s]) /\ reqs[s].pc = "done") => reqs[s].code = SuccessCode(reqs[s].kind)

(***************************************************************************)
(* Calls with and without a resolved caller, on the store of InitLoc.      *)
(* gen_random_uuid() draws an id no row has.                               *)
(***************************************************************************)
Actors == {NULL, "u1"}

FreshUuids == Uuids \ {r.id : r \in tables["staff"]}

NextActors ==
    \/ \E s \in DOMAIN reqs, b \in Bodies, a \in Actors :
          CreateInsert(s, "asset", b, a, NoId)
    \/ \E s \in DOMAIN reqs, b \in Bodies, a \in Actors :
          \E u \in FreshUuids : CreateInsert(s, "staff", b, a, u)
    \/ \E s \in DOMAIN reqs, t \in {"asset", "staff"}, b \in Bodies, a \in Actors :
          \E id \in PathIds(t) : UpdateGet(s, t, id, b, a)
    \/ \E s \in DOMAIN reqs : UpdateWrite(s)
    \/ \E s \in DOMAIN reqs, t \in DeleteTypes, a \in Actors :
          \E id \in PathIds(t) : DeleteGet(s, t, id, a)
    \/ \E s \in DOMAIN reqs : DeleteWrite(s)
    \/ \E s \in DOMAIN reqs, ok \in BOOLEAN : AuditRespond(s, ok)

SpecActors == InitLoc /\ [][NextActors]_vars

\* A create with the required column, or an update or delete of a row that
\* was found.
WellFormed(r) ==
    /\ r.kind \in Mutations
    /\ r.kind = "create" => r.body.name # ABSENT
    /\ r.kind # "create" => r.code # 404 /\ r.errors = {}

C19_InvalidCreateNoEffect ==
    [][\A s \in Slots :
          (reqs[s].pc = "idle" /\ reqs'[s].kind = "create"
              /\ reqs'[s].body.name = ABSENT) =>
              /\ reqs'[s].pc = "done" /\ reqs'[s].code = 400
              /\ reqs'[s].n = 0 /\ reqs'[s].row = <<>>
              /\ seq' = seq /\ tables' = tables /\ auditLogs' = auditLogs]_vars

\* C19 witness: after a create of the type went through, an invalid create
\* was refused, and the next create got the very next sequence value.
C19_Witness ==
    \E a, b, c \in Slots :
        /\ a < b /\ b < c
        /\ reqs[a].kind = "create" /\ reqs[a].type = "asset" /\ reqs[a].row # <<>>
        /\ reqs[b].kind = "create" /\ reqs[b].type = "asset" /\ reqs[b].code = 400
        /\ reqs[c].kind = "create" /\ reqs[c].type = "asset" /\ reqs[c].row # <<>>
        /\ reqs[c].n = reqs[a].n + 1

(***************************************************************************)
(* Creates of the sequence-backed types when the allocation can fail.      *)
(***************************************************************************)
NextAlloc ==
    \/ \E s \in Slots, t \in SeqTypes, b \in Bodies : CreateInsert(s, t, b, "u1", NoId)
    \/ \E s \in Slots, t \in SeqTypes, b \in Bodies : CreateInsertThrows(s, t, b, "u1")
    \/ \E s \in Slots, ok \in BOOLEAN : AuditRespond(s, ok)

SpecAlloc == InitFreshOrAged /\ [][NextAlloc]_vars

\* C20: every row of a sequence-backed type carries the identifier its
\* insert was given, and a create call that fails leaves the tables and the
\* audit log as they were.
C20_NoRowWithoutId ==
    [][/\ \A t \in SeqTypes : \A x \in tables'[t] :
             /\ x.id # NoId /\ x.id[2] # <<>>
             /\ \E s \in Slots : /\ reqs'[s].kind = "create" /\ reqs'[s].type = t
                                 /\ reqs'[s].row = <<x>>
                                 /\ x.id = SeqId(t, reqs'[s].n)
       /\ \A s \in Slots :
             (reqs[s].pc = "idle" /\ reqs'[s].kind = "create" /\ reqs'[s].code = 500) =>
                 /\ reqs'[s].row = <<>>
                 /\ tables' = tables /\ auditLogs' = auditLogs]_vars

\* C20 witness: a create whose allocation failed was answered 500 between two
\* creates of the same type that went through; only their two rows exist.
C20_Witness ==
    \E a, b, c \in Slots :
        /\ a < b /\ b < c
        /\ reqs[a].kind = "create" /\ reqs[a].row # <<>>
        /\ reqs[b].kind = "create" /\ reqs[b].type = reqs[a].type
        /\ reqs[b].code = 500 /\ reqs[b].n = 0
        /\ reqs[c].kind = "create" /\ reqs[c].type = reqs[a].type /\ reqs[c].row # <<>>
        /\ tables[reqs[a].type] = {reqs[a].row[1], reqs[c].row[1]}

(***************************************************************************)
(* Error reports of the proximity query (under SpecNearArgs).              *)
(***************************************************************************)
\* The fields a 400 message of the proximity query names.
FieldsNamed(msg) == {FieldNamed(msg)} \ {"none"}

\* C24 (as stated): the error answer to a call with several numbers out of
\* range names every one of them.
C24_AllOffendingFieldsNamed ==
    \A s \in NearCalls :
        (AllNumbers(reqs[s].q) /\ OutOfRange(reqs[s].q) # {}) =>
            /\ reqs[s].code = 400
            /\ OutOfRange(reqs[s].q) \subseteq FieldsNamed(reqs[s].msg)

(***************************************************************************)
(* Interleaved mutations of one entity.                                    *)
(***************************************************************************)
\* defaultNow() of audit_logs.timestamp is taken by the INSERT of the record:
\* the records' timestamps rise with their insertion order.
TimestampOf(i) == i

\* C25 (as stated), for a create and a later mutation of the same entity: the
\* row an update or delete found was inserted before that update's or
\* delete's own write, so the create record's timestamp is no later than the
\* timestamp of the update or delete record.
C25_AuditOrderFollowsWrites ==
    \A i, j \in 1..Len(auditLogs) :
        (/\ auditLogs[i].entityType \in SeqTypes
         /\ auditLogs[i].entityType = auditLogs[j].entityType
         /\ auditLogs[i].entityId = auditLogs[j].entityId
         /\ auditLogs[i].action = "create"
         /\ auditLogs[j].action \in {"update", "delete"}) =>
            TimestampOf(i) <= TimestampOf(j)

\* C26 (as stated): when an update's store write runs, the row the handler
\* read earlier (the old values it will log) is the stored row, and the row
\* the write returns (the new values it will log) is the stored row after it.
C26_UpdateSnapshotsExact ==
    [][\A s \in Slots :
          (reqs[s].kind = "update" /\ reqs[s].pc = "write" /\ reqs'[s].pc = "audit") =>
              /\ \E x \in tables[reqs[s].type] : x.id = reqs[s].id /\ reqs[s].old = <<x>>
              /\ \E x \in tables'[reqs[s].type] : x.id = reqs[s].id /\ reqs'[s].row = <<x>>]_vars

\* C27 (as stated): the audit log holds at most one delete record per entity.
C27_AtMostOneDeleteRecord ==
    \A i, j \in 1..Len(auditLogs) :
        (/\ auditLogs[i].action = "delete" /\ auditLogs[j].action = "delete"
         /\ auditLogs[i].entityType = auditLogs[j].entityType
         /\ auditLogs[i].entityId = auditLogs[j].entityId) => i = j

\* C28 (as stated): an update whose UPDATE statement matched no row is not
\* answered as a success, and no update record lacks its new values.
C28_NoSuccessWithoutRow ==
    /\ \A s \in Slots :
          (reqs[s].kind = "update" /\ Succeeded(reqs[s])) => reqs[s].row # <<>>
    /\ \A i \in 1..Len(auditLogs) :
          auditLogs[i].action = "update" => auditLogs[i].newValues # <<>>

\* C30 (as stated): every stored workflow of status rejected has comments.
C30_RejectedHasComments ==
    \A w \in tables["workflow"] :
        w.status = "rejected" => w.comments \notin {NULL, ""}

(***************************************************************************)
(* A store that holds two assets, AST-1000 "n1" and AST-1001 "n2", both    *)
(* created by u1, with the two create records of those calls (their        *)
(* requests are over: slot 0).                                             *)
(***************************************************************************)
StoredAsset(k) ==
    NewRow("asset", SeqId("asset", SeqStart + k),
           [EmptyBody EXCEPT !.name = IF k = 0 THEN "n1" ELSE "n2"], "u1")

CreateRecord(k) ==
    [entityType |-> "asset", entityId |-> StoredAsset(k).id, action |-> "create",
     userId |-> "u1", oldValues |-> <<>>, newValues |-> <<StoredAsset(k)>>, slot |-> 0]

TwoAssetsStore ==
    /\ seq = [t \in SeqTypes |-> IF t = "asset" THEN SeqStart + 2 ELSE SeqStart]
    /\ tables = [t \in Types |-> IF t = "asset" THEN {StoredAsset(0), StoredAsset(1)} ELSE {}]
    /\ auditLogs = <<CreateRecord(0), CreateRecord(1)>>

(***************************************************************************)
(* Updates of assets with bodies that carry some of name, status and       *)
(* custodianId, and possibly an id; deletes run beside them.               *)
(***************************************************************************)
MaxUpdReq == 2

InitUpd ==
    /\ TwoAssetsStore
    /\ reqs = [s \in 1..MaxUpdReq |-> IdleReq]

UpdBodies ==
    {[EmptyBody EXCEPT !.id = i, !.name = nm, !.status = st, !.custodianId = cu] :
        i \in {NoId, StoredAsset(1).id}, nm \in {ABSENT, "n3"},
        st \in {ABSENT, "inactive"}, cu \in {ABSENT, "u2"}}

NextUpd ==
    \/ \E s \in DOMAIN reqs, b \in UpdBodies :
          \E id \in PathIds("asset") : UpdateGet(s, "asset", id, b, "u1")
    \/ \E s \in DOMAIN reqs : UpdateWrite(s)
    \/ \E s \in DOMAIN reqs : \E id \in PathIds("asset") : DeleteGet(s, "asset", id, "u1")
    \/ \E s \in DOMAIN reqs : DeleteWrite(s)
    \/ \E s \in DOMAIN reqs, ok \in BOOLEAN : AuditRespond(s, ok)

SpecUpd == InitUpd /\ [][NextUpd]_vars

\* The columns of a row other than its id.
DataColumns ==
    {"name", "status", "completedDate", "comments", "custodianId", "userId",
     "createdBy", "location", "updatedAt"}

\* The columns a body sets: the keys it carries that the schema knows.
Mentions(t, body, f) ==
    f \in BodyFields \ {"id"} /\ HasColumn(t, f) /\ body[f] # ABSENT

\* What the store write of the update in slot s does, given the columns that
\* are exempt from "stays as it was": it keeps the entity's id, sets the
\* columns the body mentions, keeps the others, leaves every other row and
\* every other table as it was, and returns the stored row.
InPlace(s, exempt) ==
    LET r == reqs[s]
        before == {x \in tables[r.type] : x.id = r.id}
        after == {y \in tables'[r.type] : y.id = r.id}
    IN /\ {x.id : x \in tables'[r.type]} = {x.id : x \in tables[r.type]}
       /\ \A x \in tables[r.type] : x.id # r.id => x \in tables'[r.type]
       /\ \A t \in Types \ {r.type} : tables'[t] = tables[t]
       /\ \A x \in before : \E y \in after :
             \A f \in DataColumns \ exempt :
                 y[f] = IF Mentions(r.type, r.body, f) THEN r.body[f] ELSE x[f]
       /\ Cardinality(after) = Cardinality(before)
       /\ reqs'[s].row = IF after = {} THEN <<>> ELSE <<CHOOSE y \in after : TRUE>>

\* C29 (as stated): an update keeps the entity's id, leaves every column the
\* body does not mention at its previous value, changes no other entity and
\* returns the stored entity.
C29_PartialUpdateInPlace ==
    [][\A s \in DOMAIN reqs :
          (reqs[s].kind = "update" /\ reqs[s].pc = "write" /\ reqs'[s].pc = "audit") =>
              InPlace(s, {})]_vars

\* C29 (amended): as stated, except for updatedAt, which every update moves
\* to the time of its write whether or not the body mentions it.
C29_PartialUpdateButUpdatedAt ==
    [][\A s \in DOMAIN reqs :
          (reqs[s].kind = "update" /\ reqs[s].pc = "write" /\ reqs'[s].pc = "audit") =>
              /\ InPlace(s, {"updatedAt"})
              /\ \A y \in tables'[reqs[s].type] : y.id = reqs[s].id =>
                    \E x \in tables[reqs[s].type] :
                        x.id = y.id /\ y.updatedAt > x.updatedAt]_vars

\* C29 witness: an update whose body carried another asset's id and a new
\* status only has answered; the asset has the new status under its old id
\* and name, and the other asset is as it was.
C29_Witness ==
    \E s \in DOMAIN reqs :
        /\ reqs[s].kind = "update" /\ reqs[s].code = 200
        /\ reqs[s].id = StoredAsset(0).id
        /\ reqs[s].body.id = StoredAsset(1).id
        /\ reqs[s].body.name = ABSENT /\ reqs[s].body.status = "inactive"
        /\ \E y \in tables["asset"] :
              /\ y.id = StoredAsset(0).id /\ y.name = "n1" /\ y.status = "inactive"
              /\ y.updatedAt > 0
        /\ StoredAsset(1) \in tables["asset"]

(***************************************************************************)
(* Read routes.  Each awaits SELECT statements only and calls no           *)
(* createAuditLog.                                                         *)
(***************************************************************************)
SelectOnly_Audited(s) ==
    /\ UNCHANGED <<seq, tables>>
    /\ auditLogs' = Append(auditLogs,
                           [entityType |-> reqs[s].type, entityId |-> reqs[s].id,
                            action |-> "read", userId |-> "u1",
                            oldValues |-> <<>>, newValues |-> <<>>, slot |-> s])

SelectOnly(s) == UNCHANGED <<seq, tables, auditLogs>>

ListDefaultLimit == 20

AuditDefaultLimit == 50

\* parseInt(req.query.x) || dflt: a missing or non-numeric value and 0 give dflt.
IntOr(p, dflt) == IF p.k = "num" /\ p.v # 0 THEN p.v ELSE dflt

Min(a, b) == IF a < b THEN a ELSE b

\* like(name, `%search%`), for search terms that are whole names; no
\* condition when search is missing.
Matching(rows, search) == {r \in rows : search = ABSENT \/ r.name = search}

\* ORDER BY created_at DESC: created_at is defaultNow() of the insert, which
\* for a sequence-backed type rises with the sequence value in the id.
RECURSIVE NewestFirst(_)
NewestFirst(rows) ==
    IF rows = {} THEN <<>>
    ELSE LET top == CHOOSE x \in rows : \A y \in rows : IdNumber(y.id) <= IdNumber(x.id)
         IN <<top>> \o NewestFirst(rows \ {top})

\* ORDER BY timestamp DESC of audit_logs: latest insert first.
LatestFirst(log) == [i \in 1..Len(log) |-> log[Len(log) + 1 - i]]

\* LIMIT limit OFFSET offset
PageOf(ordered, limit, offset) ==
    SubSeq(ordered, offset + 1, Min(Len(ordered), offset + limit))

ListTypes == {"asset", "audit"}

\* GET /api/assets?limit&offset&search and GET /api/audit-logs?limit&offset:
\* the handler calls storage.get*, which issues the page query and the count
\* query together (Promise.all) and answers when both have returned.
ListGet(s, t, limit, offset, search, actor) ==
    /\ CanReceive(s)
    /\ reqs' = [reqs EXCEPT ![s] =
                  [IdleReq EXCEPT !.pc = "list", !.kind = "list", !.type = t,
                                  !.actor = actor, !.q = <<limit, offset>>,
                                  !.body = [EmptyBody EXCEPT !.name = search]]]
    /\ SelectOnly(s)

ListLimit(r) ==
    IntOr(r.q[1], IF r.type = "audit" THEN AuditDefaultLimit ELSE ListDefaultLimit)

\* The page query.
ListPage(s) ==
    /\ reqs[s].pc = "list"
    /\ ~reqs[s].queried
    /\ LET r == reqs[s]
           src == IF r.type = "audit" THEN {auditLogs[i] : i \in 1..Len(auditLogs)}
                  ELSE Matching(tables[r.type], r.body.name)
           ordered == IF r.type = "audit" THEN LatestFirst(auditLogs)
                      ELSE NewestFirst(src)
           r1 == [r EXCEPT !.queried = TRUE, !.seen = src,
                           !.result = PageOf(ordered, ListLimit(r), IntOr(r.q[2], 0))]
       IN IF r.total # -1
          THEN Respond(s, r1, 200, "")
          ELSE reqs' = [reqs EXCEPT ![s] = r1]
    /\ SelectOnly(s)

\* The count query.
ListCount(s) ==
    /\ reqs[s].pc = "list"
    /\ reqs[s].total = -1
    /\ LET r == reqs[s]
           r1 == [r EXCEPT !.total = IF r.type = "audit" THEN Len(auditLogs)
                                     ELSE Cardinality(Matching(tables[r.type], r.body.name))]
       IN IF r.queried
          THEN Respond(s, r1, 200, "")
          ELSE reqs' = [reqs EXCEPT ![s] = r1]
    /\ SelectOnly(s)

\* GET /api/{type}/:id
GetById(s, t, id, actor) ==
    /\ CanReceive(s)
    /\ LET r0 == [IdleReq EXCEPT !.kind = "get", !.type = t, !.id = id, !.actor = actor]
           found == GetRow(t, id)
       IN IF found = <<>>
          THEN Respond(s, r0, 404, "not found")
          ELSE Respond(s, [r0 EXCEPT !.row = found], 200, "")
    /\ SelectOnly(s)

\* GET /api/search?q: three SELECT ... LIMIT 10 issued together, one per
\* table; no claim reads their rows, which are taken here at one instant.
SearchGlobal(s, term, actor) ==
    /\ CanReceive(s)
    /\ LET r0 == [IdleReq EXCEPT !.kind = "search", !.actor = actor,
                                 !.body = [EmptyBody EXCEPT !.name = term]]
       IN IF term = ABSENT
          THEN Respond(s, r0, 400, "Search query is required")
          ELSE Respond(s, [r0 EXCEPT !.queried = TRUE,
                                     !.seen = UNION {Matching(tables[t], term) :
                                                       t \in {"asset", "staff", "document"}}],
                       200, "")
    /\ SelectOnly(s)

\* GET /api/dashboard/stats: four counts issued together, taken here at one
\* instant: assets, active staff, documents, pending workflows.
DashboardStats(s, actor) ==
    /\ CanReceive(s)
    /\ Respond(s, [IdleReq EXCEPT
                      !.kind = "stats", !.actor = actor, !.queried = TRUE,
                      !.result = <<Cardinality(tables["asset"]),
                                   Cardinality({x \in tables["staff"] : x.status = "active"}),
                                   Cardinality(tables["document"]),
                                   Cardinality({x \in tables["workflow"] : x.status = "pending"})>>],
               200, "")
    /\ SelectOnly(s)

(***************************************************************************)
(* Reads beside creates and deletes of assets, on the store of two assets. *)
(***************************************************************************)
MaxReadReq == 3

InitRead ==
    /\ TwoAssetsStore
    /\ reqs = [s \in 1..MaxReadReq |-> IdleReq]

\* limit and offset as sent: missing, or a number.
ListLimits == {MissingP, NumP(1)}

ListOffsets == {NumP(0), NumP(1)}

NextRead ==
    \/ \E s \in DOMAIN reqs, l \in ListLimits, o \in ListOffsets, q \in {ABSENT, "n1"} :
          ListGet(s, "asset", l, o, q, "u1")
    \/ \E s \in DOMAIN reqs, l \in ListLimits, o \in ListOffsets :
          ListGet(s, "audit", l, o, ABSENT, "u1")
    \/ \E s \in DOMAIN reqs : ListPage(s)
    \/ \E s \in DOMAIN reqs : ListCount(s)
    \/ \E s \in DOMAIN reqs : \E id \in PathIds("asset") : GetById(s, "asset", id, "u1")
    \/ \E s \in DOMAIN reqs, term \in {ABSENT, "n1"} : SearchGlobal(s, term, "u1")
    \/ \E s \in DOMAIN reqs : DashboardStats(s, "u1")
    \/ \E s \in DOMAIN reqs : Near(s, "asset", NumP(0), NumP(89), NumP(100), "u1")
    \/ \E s \in DOMAIN reqs : CreateInsert(s, "asset", [EmptyBody EXCEPT !.name = "n1"], "u1", NoId)
    \/ \E s \in DOMAIN reqs : \E id \in PathIds("asset") : DeleteGet(s, "asset", id, "u1")
    \/ \E s \in DOMAIN reqs : DeleteWrite(s)
    \/ \E s \in DOMAIN reqs, ok \in BOOLEAN : AuditRespond(s, ok)

SpecRead == InitRead /\ [][NextRead]_vars

\* The list calls that have been answered.
Lists(t) == {s \in DOMAIN reqs : reqs[s].kind = "list" /\ reqs[s].type = t /\ reqs[s].pc = "done"}

\* C21 (as stated): of two answered audit-log list calls of the same limit
\* whose offsets are one page apart, no record is in both pages.
C21_AuditPagesDisjoint ==
    \A a, b \in Lists("audit") :
        (/\ ListLimit(reqs[a]) = ListLimit(reqs[b])
         /\ IntOr(reqs[b].q[2], 0) = IntOr(reqs[a].q[2], 0) + ListLimit(reqs[a])) =>
            \A i \in 1..Len(reqs[a].result), j \in 1..Len(reqs[b].result) :
                reqs[a].result[i] # reqs[b].result[j]

\* C22 (as stated): the total of an answered list call is the number of
\* matching rows of the store state its page was taken from, and the page
\* holds no more rows than total.
C22_PageAndTotalAgree ==
    \A t \in ListTypes : \A s \in Lists(t) :
        /\ reqs[s].total = Cardinality(reqs[s].seen)
        /\ Len(reqs[s].result) <= reqs[s].total

ReadKinds == {"get", "list", "search", "stats", "near"}

\* C23: a step of a read call (get by id, list, search, proximity query,
\* audit-log list, dashboard stats) leaves the tables, the sequences and the
\* audit log as they were.
C23_ReadsChangeNothing ==
    [][\A s \in DOMAIN reqs :
          (reqs'[s] # reqs[s] /\ reqs'[s].kind \in ReadKinds) =>
              /\ seq' = seq /\ tables' = tables /\ auditLogs' = auditLogs
              /\ RecordsOf(s) = {}]_vars

\* C23 witness: an asset list, an audit-log list and a get by id have all
\* been answered from the populated store.
C23_Witness ==
    /\ \E s \in Lists("asset") : Len(reqs[s].result) > 0
    /\ \E s \in Lists("audit") : reqs[s].total > 0
    /\ \E s \in DOMAIN reqs : reqs[s].kind = "get" /\ reqs[s].code = 200

====
